---------------------------- MODULE Spec2Model ----------------------------
(***************************************************************************)
(* A model of packages/nx/src/native/workspace/context.rs: the workspace   *)
(* file index (FilesWorker: a Mutex<Vec<(PathBuf, String)>> with a         *)
(* Condvar, filled once by a background thread and then updated            *)
(* incrementally), the glob queries on it (WorkspaceContext::glob and      *)
(* hash_files_matching_glob) and the project partitioner                   *)
(* (WorkspaceContext::update_project_files).                               *)
(*                                                                         *)
(* A path is a number: path p stands for the p-th name of PathNames, which *)
(* is listed in ascending order, so that the order of the numbers is the   *)
(* order par_sort gives the paths.  A file content is a number of          *)
(* Contents, NoFile on the disk stands for a path that cannot be read, and *)
(* a digest is the number Hash gives a content.  A record of the store is  *)
(* the pair <<path, digest>>.                                              *)
(***************************************************************************)
EXTENDS Integers, Sequences, FiniteSets, TLC

\* ------------------------------------------------------------- bounds
\* Calls the hosts issue in one run, and changes made to the disk in one run.
MaxOps == 2
MaxWrites == 1

\* The names of the paths, in ascending order: path p is PathNames[p].
PathNames == <<"apps/bar/y.ts", "libs/foo/x.ts">>

Paths == DOMAIN PathNames
\* The contents a file may have, and the host threads that call the index.
Contents == {1, 2}
Callers == {"t1", "t2"}

\* ------------------------------------------------ values of the program
\* What the disk holds for a path std::fs::read fails on (and the walker
\* does not yield).
NoFile == 0

\* hasher::hash: a digest of the content.  Injective on Contents, and not
\* monotone: the order of two digests says nothing of the contents.
Hash(content) == 10 + ((content * 2) % 5)

Hashes == {Hash(c) : c \in Contents}

\* ------------------------------------------------------ sequences
Range(s) == {s[i] : i \in DOMAIN s}

\* The order of (PathBuf, String) tuples: by path, then by digest.
RecLeq(r, s) == r[1] < s[1] \/ (r[1] = s[1] /\ r[2] <= s[2])

IsSorted(s) == \A i \in 1..(Len(s) - 1) : RecLeq(s[i], s[i + 1])

RECURSIVE InsertRec(_, _)
InsertRec(r, s) ==
    IF s = <<>> THEN <<r>>
    ELSE IF RecLeq(r, Head(s)) THEN <<r>> \o s
    ELSE <<Head(s)>> \o InsertRec(r, Tail(s))

RECURSIVE SortRecs(_)
SortRecs(s) == IF s = <<>> THEN <<>> ELSE InsertRec(Head(s), SortRecs(Tail(s)))

\* Vec::par_sort.
ParSort(s) == SortRecs(s)

\* The sequences that hold each element of the set S once, in any order.
Orderings(S) ==
    {s \in [1..Cardinality(S) -> S] : \A x \in S : \E i \in DOMAIN s : s[i] = x}

PathsOf(s) == {s[i][1] : i \in DOMAIN s}

NoDuplicatePath(s) == \A i, j \in DOMAIN s : s[i][1] = s[j][1] => i = j

\* files.drain(..).collect::<HashMap<_, _>>(): of two records of one path
\* the later one stays.
CollectMap(s) ==
    [p \in PathsOf(s) |->
        LET last == CHOOSE i \in DOMAIN s :
                        s[i][1] = p /\ \A j \in DOMAIN s : s[j][1] = p => j <= i
        IN  s[last][2]]

\* The records of a map, as a set.
MapRecords(m) == {<<p, m[p]>> : p \in DOMAIN m}

\* map.remove for every deleted path.
RemoveDeleted(m, deleted) == [p \in (DOMAIN m) \ deleted |-> m[p]]

\* A filter that also drops the paths named as deleted.
HashUpdatedNotDeleted(updated, deleted, d) ==
    [p \in {q \in updated \ deleted : d[q] # NoFile} |-> Hash(d[p])]

\* A map that gives up on the first read that fails.
HashUpdatedOrAbort(updated, deleted, d) ==
    IF \E q \in updated : d[q] = NoFile THEN [p \in {} |-> 0]
    ELSE [p \in updated |-> Hash(d[p])]

\* The parallel filter_map of update_files: the digest of every updated
\* path that can be read.
HashUpdated(updated, deleted, d) ==
    [p \in {q \in updated : d[q] # NoFile} |-> Hash(d[p])]

\* A merge that inserts the digests of new paths and leaves the paths the
\* map holds as they are.
MergeHashesInsertOnly(m, hashes) ==
    [p \in (DOMAIN m) \cup (DOMAIN hashes) |->
        IF p \in DOMAIN m THEN m[p] ELSE hashes[p]]

\* map.entry(file).and_modify(..).or_insert(..) for every computed digest.
MergeHashes(m, hashes) ==
    [p \in (DOMAIN m) \cup (DOMAIN hashes) |->
        IF p \in DOMAIN hashes THEN hashes[p] ELSE m[p]]

\* nx_walker with the hashing closure: a record for every file of the disk.
WalkRecords(d) == {<<p, Hash(d[p])>> : p \in {q \in Paths : d[q] # NoFile}}

EmptyMap == [p \in {} |-> 0]


\* ------------------------------------------------------------- state
VARIABLES
    worker,     \* FilesWorker.0: "Some" (the store and its condvar) or "None"
    disk,       \* the workspace on disk: path -> content, or NoFile
    files,      \* the store behind the mutex: a sequence of records
    owner,      \* the thread that holds the mutex, or "free"
    popPc,      \* where the population thread is
    walked,     \* the population thread's `files`: what nx_walker returned
    pc,         \* where each calling thread is
    call,       \* the locals of the update_files call that holds the mutex
    early,      \* the callers whose get_files began before population signalled
    twice,      \* history: the run of update_files calls that only delete absent paths
    ops,        \* calls issued so far
    writes,     \* changes made to the disk so far
    hostPc,     \* where the host's call of update_project_files is
    projectFiles, \* the External<ProjectFiles> the host holds: project -> records
    globalFiles,  \* the External<Vec<FileData>> the host holds
    allFiles,   \* the all_workspace_files the host was handed last
    pf,         \* the arguments and locals of update_project_files
    sync,       \* what the host keeps between incremental_update and update_project_files
    query       \* the last call of the glob layer and what it returned

hostVars == <<hostPc, projectFiles, globalFiles, allFiles, pf, sync, query>>

vars == <<worker, disk, files, owner, popPc, walked, pc, call, early, twice,
          ops, writes, hostVars>>

NoCall == [updated |-> {}, deleted |-> {}, pre |-> <<>>, map |-> EmptyMap,
           seen |-> [p \in Paths |-> NoFile], hashes |-> EmptyMap]

NoRun == [n |-> 0, deleted |-> {}, store |-> <<>>]

NoPf == [mapping |-> EmptyMap, updated |-> EmptyMap, deleted |-> {},
         projects |-> EmptyMap, global |-> <<>>]

NoSync == [mapping |-> EmptyMap, ret |-> EmptyMap, deleted |-> {}]

NoQuery == [op |-> "none", globs |-> "", exclude |-> "", ok |-> TRUE, out |-> <<>>,
            at |-> 0, quiet |-> TRUE]

\* A host that has not called update_project_files and holds no partition.
NoHostCall ==
    /\ hostPc = "idle"
    /\ projectFiles = EmptyMap
    /\ globalFiles = <<>>
    /\ allFiles = <<>>
    /\ pf = NoPf
    /\ sync = NoSync
    /\ query = NoQuery

\* FilesWorker::gather_files: FilesWorker(None) when the root does not
\* exist, and otherwise an empty store and a spawned thread.
GatherFiles(rootExists) ==
    /\ worker = (IF rootExists THEN "Some" ELSE "None")
    /\ popPc = (IF rootExists THEN "spawned" ELSE "none")
    /\ files = <<>>
    /\ owner = "free"
    /\ walked = <<>>

\* WorkspaceContext::new.  A root that does not exist holds no file.
Init ==
    /\ \E rootExists \in BOOLEAN :
         /\ GatherFiles(rootExists)
         /\ disk \in [Paths -> Contents \cup {NoFile}]
         /\ ~rootExists => disk = [p \in Paths |-> NoFile]
    /\ pc = [c \in Callers |-> "idle"]
    /\ call = NoCall
    /\ early = {}
    /\ twice = NoRun
    /\ ops = 0
    /\ writes = 0
    /\ NoHostCall

\* ------------------------------------------------- the population thread
\* lock.lock() of the spawned closure.
PopLock ==
    /\ popPc = "spawned"
    /\ owner = "free"
    /\ owner' = "pop"
    /\ popPc' = "walk"
    /\ UNCHANGED <<worker, disk, files, walked, pc, call, early, twice, ops, writes>>
    /\ UNCHANGED hostVars

\* nx_walker(workspace_root, ..): the files of the disk, hashed, in the
\* order the traversal happens to give them.
PopWalk ==
    /\ popPc = "walk"
    /\ \E w \in Orderings(WalkRecords(disk)) : walked' = w
    /\ popPc' = "extend"
    /\ UNCHANGED <<worker, disk, files, owner, pc, call, early, twice, ops, writes>>
    /\ UNCHANGED hostVars

\* files.extend(..) without the par_sort after it.
ExtendUnsorted(store, found) == store \o found

\* workspace_files.extend(files); workspace_files.par_sort().
ExtendAndSort(store, found) == ParSort(store \o found)

PopExtend ==
    /\ popPc = "extend"
    /\ files' = ExtendAndSort(files, walked)
    /\ popPc' = "notify"
    /\ twice' = NoRun
    /\ UNCHANGED <<worker, disk, owner, walked, pc, call, early, ops, writes>>
    /\ UNCHANGED hostVars

\* cvar.notify_all(): every thread waiting on the condvar is woken, and has
\* to take the mutex again before cvar.wait returns.
NotifyAll(p) == [c \in Callers |-> IF p[c] = "get_wait" THEN "get_woken" ELSE p[c]]

\* notify_all, then the end of the closure, which drops the guard.
PopNotify ==
    /\ popPc = "notify"
    /\ pc' = NotifyAll(pc)
    /\ owner' = "free"
    /\ popPc' = "done"
    /\ UNCHANGED <<worker, disk, files, walked, call, early, twice, ops, writes>>
    /\ UNCHANGED hostVars

\* ------------------------------------------------------------ get_files
\* Whether get_files, holding the lock, goes to wait on the condvar.
MustWait(store) == Len(store) = 0

\* What get_files returns: the records of the store as it holds the lock,
\* and vec![] without a store.
GetFilesResult(c) == IF worker = "None" THEN <<>> ELSE files

GetCall(c) ==
    /\ pc[c] = "idle"
    /\ ops < MaxOps
    /\ ops' = ops + 1
    /\ IF worker = "None"
       THEN /\ pc' = [pc EXCEPT ![c] = "get_ret"]
            /\ UNCHANGED early
       ELSE /\ pc' = [pc EXCEPT ![c] = "get_lock"]
            /\ early' = IF popPc # "done" THEN early \cup {c} ELSE early
    /\ UNCHANGED <<worker, disk, files, owner, popPc, walked, call, twice, writes>>
    /\ UNCHANGED hostVars

\* get_files, had it kept the mutex while it waits for the store to fill.
GetLockHolding(c) ==
    /\ pc[c] = "get_lock"
    /\ owner = "free"
    /\ owner' = c
    /\ pc' = [pc EXCEPT ![c] = IF MustWait(files) THEN "get_wait" ELSE "get_ret"]
    /\ UNCHANGED <<worker, disk, files, popPc, walked, call, early, twice, ops, writes>>
    /\ UNCHANGED hostVars

\* get_files, had it read the store without taking the mutex.
GetLockUnguarded(c) ==
    /\ pc[c] = "get_lock"
    /\ IF MustWait(files)
       THEN /\ pc' = [pc EXCEPT ![c] = "get_wait"]
            /\ UNCHANGED owner
       ELSE /\ pc' = [pc EXCEPT ![c] = "get_ret"]
            /\ owner' = c
    /\ UNCHANGED <<worker, disk, files, popPc, walked, call, early, twice, ops, writes>>
    /\ UNCHANGED hostVars

\* files_lock.lock(), then the test of files.len(): cvar.wait releases the
\* mutex as it starts to wait.
GetLock(c) ==
    /\ pc[c] = "get_lock"
    /\ owner = "free"
    /\ IF MustWait(files)
       THEN /\ pc' = [pc EXCEPT ![c] = "get_wait"]
            /\ UNCHANGED owner
       ELSE /\ pc' = [pc EXCEPT ![c] = "get_ret"]
            /\ owner' = c
    /\ UNCHANGED <<worker, disk, files, popPc, walked, call, early, twice, ops, writes>>
    /\ UNCHANGED hostVars

\* cvar.wait returns: the woken thread has the mutex again.
GetRelock(c) ==
    /\ pc[c] = "get_woken"
    /\ owner = "free"
    /\ owner' = c
    /\ pc' = [pc EXCEPT ![c] = "get_ret"]
    /\ UNCHANGED <<worker, disk, files, popPc, walked, call, early, twice, ops, writes>>
    /\ UNCHANGED hostVars

\* The copy of the records, drop(files) and the return.
GetReturn(c) ==
    /\ pc[c] = "get_ret"
    /\ worker = "Some" => owner = c
    /\ owner' = "free"
    /\ pc' = [pc EXCEPT ![c] = "idle"]
    /\ early' = early \ {c}
    /\ UNCHANGED <<worker, disk, files, popPc, walked, call, twice, ops, writes>>
    /\ UNCHANGED hostVars

\* --------------------------------------------------------- update_files
\* What update_files returns: updated_files_hashes, and an empty map
\* without a store.
UpdateFilesResult(c) == IF worker = "None" THEN EmptyMap ELSE call.hashes

\* A call that goes for the lock whether or not there is a store.
UpdEntryUnchecked(w) == "upd_lock"

\* let Some(files_sync) = &self.0 else { return HashMap::new() }: where a
\* call of update_files goes first.
UpdEntry(w) == IF w = "None" THEN "upd_ret" ELSE "upd_lock"

UpdCall(c) ==
    /\ pc[c] = "idle"
    /\ ops < MaxOps
    /\ ops' = ops + 1
    /\ pc' = [pc EXCEPT ![c] = UpdEntry(worker)]
    /\ UNCHANGED <<worker, disk, files, owner, popPc, walked, call, early, twice, writes>>
    /\ UNCHANGED hostVars

\* The working map after files.drain(..).collect() and the removals.
DrainAndDelete(store, deleted) == RemoveDeleted(CollectMap(store), deleted)

\* update_files, had it dropped the guard after the drain and the removals.
UpdLockReleasing(c) ==
    /\ pc[c] = "upd_lock"
    /\ owner = "free"
    /\ UNCHANGED owner
    /\ \E u, d \in SUBSET Paths :
         call' = [updated |-> u, deleted |-> d, pre |-> files,
                  map |-> DrainAndDelete(files, d),
                  seen |-> [p \in Paths |-> NoFile], hashes |-> EmptyMap]
    /\ files' = <<>>
    /\ pc' = [pc EXCEPT ![c] = "upd_hash"]
    /\ UNCHANGED <<worker, disk, popPc, walked, early, twice, ops, writes>>
    /\ UNCHANGED hostVars

\* files_lock.lock(), the drain of the store into the map and the removal of
\* the deleted paths.  The arguments are drawn here: nothing reads them
\* before the lock is taken.
UpdLock(c) ==
    /\ pc[c] = "upd_lock"
    /\ owner = "free"
    /\ owner' = c
    /\ \E u, d \in SUBSET Paths :
         call' = [updated |-> u, deleted |-> d, pre |-> files,
                  map |-> DrainAndDelete(files, d),
                  seen |-> [p \in Paths |-> NoFile], hashes |-> EmptyMap]
    /\ files' = <<>>
    /\ pc' = [pc EXCEPT ![c] = "upd_hash"]
    /\ UNCHANGED <<worker, disk, popPc, walked, early, twice, ops, writes>>
    /\ UNCHANGED hostVars

\* The reads and the hashing of the updated paths.
UpdHash(c) ==
    /\ pc[c] = "upd_hash"
    /\ owner = c
    /\ call' = [call EXCEPT !.seen = disk, !.hashes = HashUpdated(call.updated, call.deleted, disk)]
    /\ pc' = [pc EXCEPT ![c] = "upd_merge"]
    /\ UNCHANGED <<worker, disk, files, owner, popPc, walked, early, twice, ops, writes>>
    /\ UNCHANGED hostVars

\* *files = map.into_iter().collect(); files.par_sort(): the entries of the
\* map in the order the iteration gives them, then sorted.
RebuildStore(order) == ParSort(order)

\* Whether a call only deletes paths the store does not hold.
DeletesAbsentOnly(cl) ==
    /\ cl.updated = {}
    /\ cl.deleted # {}
    /\ cl.deleted \cap PathsOf(cl.pre) = {}

\* History: how many such calls, with the same paths, came in a row, and
\* the store before the first of them.
NextRun(run, cl) ==
    IF ~DeletesAbsentOnly(cl) THEN NoRun
    ELSE IF run.n > 0 /\ run.deleted = cl.deleted
         THEN [run EXCEPT !.n = 2]
         ELSE [n |-> 1, deleted |-> cl.deleted, store |-> cl.pre]

\* The merge of the digests into the map and the rebuild of the store.
UpdMerge(c) ==
    /\ pc[c] = "upd_merge"
    /\ owner = c
    /\ LET merged == MergeHashes(call.map, call.hashes) IN
         \E order \in Orderings(MapRecords(merged)) :
           files' = RebuildStore(order)
    /\ twice' = NextRun(twice, call)
    /\ pc' = [pc EXCEPT ![c] = "upd_ret"]
    /\ UNCHANGED <<worker, disk, owner, popPc, walked, call, early, ops, writes>>
    /\ UNCHANGED hostVars

\* The return of updated_files_hashes, which drops the guard.
UpdReturn(c) ==
    /\ pc[c] = "upd_ret"
    /\ worker = "Some" => owner = c
    /\ owner' = "free"
    /\ call' = NoCall
    /\ pc' = [pc EXCEPT ![c] = "idle"]
    /\ UNCHANGED <<worker, disk, files, popPc, walked, early, twice, ops, writes>>
    /\ UNCHANGED hostVars

\* ------------------------------------------------------ the environment
\* A file is written, created or removed.
DiskWrite ==
    /\ writes < MaxWrites
    /\ writes' = writes + 1
    /\ \E p \in Paths, v \in Contents \cup {NoFile} :
         /\ v # disk[p]
         /\ disk' = [disk EXCEPT ![p] = v]
    /\ UNCHANGED <<worker, files, owner, popPc, walked, pc, call, early, twice, ops>>
    /\ UNCHANGED hostVars

Next ==
    \/ PopLock
    \/ PopWalk
    \/ PopExtend
    \/ PopNotify
    \/ DiskWrite
    \/ \E c \in Callers : GetCall(c)
    \/ \E c \in Callers : GetLock(c)
    \/ \E c \in Callers : GetRelock(c)
    \/ \E c \in Callers : GetReturn(c)
    \/ \E c \in Callers : UpdCall(c)
    \/ \E c \in Callers : UpdLock(c)
    \/ \E c \in Callers : UpdHash(c)
    \/ \E c \in Callers : UpdMerge(c)
    \/ \E c \in Callers : UpdReturn(c)

Spec == Init /\ [][Next]_vars


\* --------------------------------------------- update_project_files
\* The directories of each path, the nearest first.
PathDirs == << <<"apps/bar", "apps">>, <<"libs/foo", "libs">> >>

\* The project roots a host may name, and the project of each.
RootProject == [r \in {"apps/bar", "libs", "libs/foo"} |->
                  IF r = "apps/bar" THEN "bar" ELSE IF r = "libs" THEN "libs" ELSE "foo"]

Projects == {RootProject[r] : r \in DOMAIN RootProject}

\* The project_root_mappings a host may pass: root -> project.
Mappings == {[r \in R |-> RootProject[r]] : R \in SUBSET DOMAIN RootProject}

\* The updated_files a host may pass: path -> digest.
UpdatedMaps == UNION {[U -> Hashes] : U \in SUBSET Paths}

NoProject == "(none)"

\* find_project_for_path: the project of the nearest directory of the path
\* that is a project root.
FindProjectForPath(p, mapping) ==
    LET hits == {i \in DOMAIN PathDirs[p] : PathDirs[p][i] \in DOMAIN mapping}
    IN  IF hits = {} THEN NoProject
        ELSE mapping[PathDirs[p][CHOOSE i \in hits : \A j \in hits : i <= j]]

\* find_project_for_path(..).and_then(|project| project_files_map.get_mut(project)):
\* the list the path belongs in, if the map holds that project.
ProjectListFor(p, mapping, projects) ==
    LET project == FindProjectForPath(p, mapping)
    IN  IF project # NoProject /\ project \in DOMAIN projects THEN project ELSE NoProject

\* The place of the first record of the path in a list, or 0.
Position(list, p) ==
    IF p \in PathsOf(list)
    THEN CHOOSE i \in DOMAIN list : list[i][1] = p /\ \A j \in DOMAIN list : list[j][1] = p => i <= j
    ELSE 0

\* project_files.iter_mut().find(..): the digest is overwritten, or the
\* record pushed.
SetOrPush(list, p, h) ==
    IF Position(list, p) # 0 THEN [list EXCEPT ![Position(list, p)] = <<p, h>>]
    ELSE Append(list, <<p, h>>)

\* Vec::remove(pos).
RemoveAt(list, pos) ==
    [i \in 1..(Len(list) - 1) |-> IF i < pos THEN list[i] ELSE list[i + 1]]

\* global_files.entry(file).and_modify(..).or_insert(hash).
PutGlobal(g, p, h) == [q \in (DOMAIN g) \cup {p} |-> IF q = p THEN h ELSE g[q]]

\* One turn of the loop over updated_files, had it used entry(project).or_default()
\* in place of get_mut(project).
UpdateOneCreating(st, p, h, mapping) ==
    LET project == FindProjectForPath(p, mapping)
    IN  IF project = NoProject THEN [st EXCEPT !.global = PutGlobal(@, p, h)]
        ELSE IF project \in DOMAIN st.projects
        THEN [st EXCEPT !.projects[project] = SetOrPush(@, p, h)]
        ELSE [st EXCEPT !.projects =
                [k \in (DOMAIN @) \cup {project} |->
                    IF k = project THEN << <<p, h>> >> ELSE @[k]]]

\* One turn of the loop over updated_files.
UpdateOne(st, p, h, mapping) ==
    LET project == ProjectListFor(p, mapping, st.projects)
    IN  IF project # NoProject
        THEN [st EXCEPT !.projects[project] = SetOrPush(@, p, h)]
        ELSE [st EXCEPT !.global = PutGlobal(@, p, h)]

\* One turn of the loop over deleted_files, had the removal from the global
\* files been the else branch of the removal from the project's list.
DeleteOneEitherBucket(st, p, mapping) ==
    LET project == ProjectListFor(p, mapping, st.projects)
    IN  IF project # NoProject
        THEN [st EXCEPT !.projects[project] =
                IF Position(@, p) # 0 THEN RemoveAt(@, Position(@, p)) ELSE @]
        ELSE [st EXCEPT !.global = RemoveDeleted(@, {p})]

\* One turn of the loop over deleted_files.
DeleteOne(st, p, mapping) ==
    LET project == ProjectListFor(p, mapping, st.projects)
        projects == IF project # NoProject /\ Position(st.projects[project], p) # 0
                    THEN [st.projects EXCEPT ![project] = RemoveAt(@, Position(@, p))]
                    ELSE st.projects
    IN  [projects |-> projects, global |-> RemoveDeleted(st.global, {p})]

RECURSIVE ApplyUpdates(_, _, _, _)
ApplyUpdates(st, order, updated, mapping) ==
    IF order = <<>> THEN st
    ELSE ApplyUpdates(UpdateOne(st, Head(order), updated[Head(order)], mapping),
                      Tail(order), updated, mapping)

RECURSIVE ApplyDeletes(_, _, _)
ApplyDeletes(st, order, mapping) ==
    IF order = <<>> THEN st
    ELSE ApplyDeletes(DeleteOne(st, Head(order), mapping), Tail(order), mapping)

\* update_project_files up to the build of non_project_files: the clone of
\* the prior partition, the loop over updated_files (a HashMap: in any
\* order), the loop over deleted_files, and the global map turned into a
\* Vec (in any order).
HostCall ==
    /\ hostPc = "idle"
    /\ ops < MaxOps
    /\ ops' = ops + 1
    /\ \E mapping \in Mappings, updated \in UpdatedMaps, deleted \in SUBSET Paths :
         \E uo \in Orderings(DOMAIN updated), do \in Orderings(deleted) :
           LET st0 == [projects |-> projectFiles, global |-> CollectMap(globalFiles)]
               st == ApplyDeletes(ApplyUpdates(st0, uo, updated, mapping), do, mapping)
           IN  \E go \in Orderings(MapRecords(st.global)) :
                 pf' = [mapping |-> mapping, updated |-> updated, deleted |-> deleted,
                        projects |-> st.projects, global |-> go]
    /\ hostPc' = "pf_built"
    /\ UNCHANGED <<worker, disk, files, owner, popPc, walked, pc, call, early, twice, writes>>
    /\ UNCHANGED <<projectFiles, globalFiles, allFiles, sync, query>>

\* self.all_file_data() of the result, on a store that need not be waited
\* for, and the return: the host keeps the externals it is handed.
HostReturn ==
    /\ hostPc = "pf_built"
    /\ owner = "free"
    /\ ~MustWait(files)
    /\ allFiles' = files
    /\ projectFiles' = pf.projects
    /\ globalFiles' = pf.global
    /\ pf' = NoPf
    /\ hostPc' = "idle"
    /\ UNCHANGED <<worker, disk, files, owner, popPc, walked, pc, call, early, twice, ops, writes>>
    /\ UNCHANGED <<sync, query>>

\* self.all_file_data() on an empty store: get_files waits on the condvar.
HostWait ==
    /\ hostPc = "pf_built"
    /\ owner = "free"
    /\ MustWait(files)
    /\ hostPc' = "pf_wait"
    /\ UNCHANGED <<worker, disk, files, owner, popPc, walked, pc, call, early, twice, ops, writes>>
    /\ UNCHANGED <<projectFiles, globalFiles, allFiles, pf, sync, query>>

\* A host that calls update_project_files again and again, on a store the
\* population pass has filled; it starts with a partition of empty lists.
InitHost ==
    /\ worker = "Some"
    /\ popPc = "done"
    /\ owner = "free"
    /\ disk \in {[p \in Paths |-> NoFile], [p \in Paths |-> 1]}
    /\ walked \in Orderings(WalkRecords(disk))
    /\ files = ExtendAndSort(<<>>, walked)
    /\ pc = [c \in Callers |-> "idle"]
    /\ call = NoCall
    /\ early = {}
    /\ twice = NoRun
    /\ ops = 0
    /\ writes = 0
    /\ hostPc = "idle"
    /\ \E K \in SUBSET Projects : projectFiles = [k \in K |-> <<>>]
    /\ globalFiles = <<>>
    /\ allFiles = <<>>
    /\ pf = NoPf
    /\ sync = NoSync
    /\ query = NoQuery

NextHost ==
    \/ HostCall
    \/ HostReturn
    \/ HostWait

SpecHost == InitHost /\ [][NextHost]_vars

\* ------------------------------------------------------ the glob layer
\* The include patterns a caller may pass, one of them malformed, and the
\* exclude patterns.
Patterns == {"**/*.ts", "libs/**", "["}

NoExclude == "(no exclude)"

Excludes == {NoExclude, "libs/**"}

Malformed(g) == g = "["

\* Whether a well-formed pattern matches a path.
Matches(g, p) ==
    IF g = "**/*.ts" THEN TRUE
    ELSE IF g = "libs/**" THEN \E i \in DOMAIN PathDirs[p] : PathDirs[p][i] = "libs"
    ELSE FALSE

\* config_files::glob_files: an error for a malformed pattern, and otherwise
\* the records of the snapshot, in its order, that the include pattern
\* matches and the exclude pattern does not.
GlobFiles(snapshot, g, x) ==
    IF Malformed(g) THEN [ok |-> FALSE, files |-> <<>>]
    ELSE [ok |-> TRUE,
          files |-> SelectSeq(snapshot,
                      LAMBDA r : Matches(g, r[1]) /\ ~(x # NoExclude /\ Matches(x, r[1])))]

\* The digests of records laid end to end: each is two decimal digits.
RECURSIVE Concat(_)
Concat(recs) ==
    IF recs = <<>> THEN 0
    ELSE Concat(SubSeq(recs, 1, Len(recs) - 1)) * 100 + recs[Len(recs)][2]

\* hash of the concatenated digests: injective.
HashBytes(bytes) == 7 + 3 * bytes

\* What glob returns: the paths of the matched records, or the error.
GlobOut(snapshot, g, x) ==
    LET r == GlobFiles(snapshot, g, x)
    IN  [ok |-> r.ok, out |-> [i \in DOMAIN r.files |-> PathNames[r.files[i][1]]]]

\* What hash_files_matching_glob returns: the digest of the matched
\* records' digests, or the error.
HashGlobOut(snapshot, g, x) ==
    LET r == GlobFiles(snapshot, g, x)
    IN  [ok |-> r.ok, out |-> IF r.ok THEN HashBytes(Concat(r.files)) ELSE 0]

\* ------------------------------------------- a host session on the index
\* The partition the host holds at first: the records of the snapshot, each
\* in the list of its owning project or, without one, in the global files.
InitialPartition(snapshot, mapping) ==
    [projects |-> [k \in {mapping[r] : r \in DOMAIN mapping} |->
                     SelectSeq(snapshot, LAMBDA r : FindProjectForPath(r[1], mapping) = k)],
     global |-> SelectSeq(snapshot, LAMBDA r : FindProjectForPath(r[1], mapping) = NoProject)]

\* incremental_update: the whole of update_files, in a host that calls one
\* operation at a time.  The host keeps what it returns and the deleted paths.
SyncUpdate ==
    /\ hostPc = "idle"
    /\ owner = "free"
    /\ ops < MaxOps
    /\ ops' = ops + 1
    /\ \E u, d \in SUBSET Paths :
         LET hashes == HashUpdated(u, d, disk)
             merged == MergeHashes(DrainAndDelete(files, d), hashes)
         IN  /\ \E order \in Orderings(MapRecords(merged)) : files' = RebuildStore(order)
             /\ sync' = [sync EXCEPT !.ret = hashes, !.deleted = d]
    /\ hostPc' = "sync_updated"
    /\ UNCHANGED <<worker, disk, owner, popPc, walked, pc, call, early, twice, writes>>
    /\ UNCHANGED <<projectFiles, globalFiles, allFiles, pf, query>>

\* update_project_files on the partition the host holds, with the mapping
\* incremental_update returned and the same deleted paths.
SyncPartition ==
    /\ hostPc = "sync_updated"
    /\ \E uo \in Orderings(DOMAIN sync.ret), do \in Orderings(sync.deleted) :
         LET st0 == [projects |-> projectFiles, global |-> CollectMap(globalFiles)]
             st == ApplyDeletes(ApplyUpdates(st0, uo, sync.ret, sync.mapping), do, sync.mapping)
         IN  \E go \in Orderings(MapRecords(st.global)) :
               pf' = [mapping |-> sync.mapping, updated |-> sync.ret, deleted |-> sync.deleted,
                      projects |-> st.projects, global |-> go]
    /\ hostPc' = "pf_built"
    /\ UNCHANGED <<worker, disk, files, owner, popPc, walked, pc, call, early, twice, ops, writes>>
    /\ UNCHANGED <<projectFiles, globalFiles, allFiles, sync, query>>

\* all_file_data() of a read-side call on an empty store: the host waits.
HostReadWait ==
    /\ hostPc = "idle"
    /\ owner = "free"
    /\ MustWait(files)
    /\ hostPc' = "read_wait"
    /\ UNCHANGED <<worker, disk, files, owner, popPc, walked, pc, call, early, twice, ops, writes>>
    /\ UNCHANGED <<projectFiles, globalFiles, allFiles, pf, sync, query>>

\* The host's call of get_files.
HostGetFiles ==
    /\ hostPc = "idle"
    /\ owner = "free"
    /\ ~MustWait(files)
    /\ ops < MaxOps
    /\ ops' = ops + 1
    /\ query' = [NoQuery EXCEPT !.op = "get", !.out = files]
    /\ UNCHANGED <<worker, disk, files, owner, popPc, walked, pc, call, early, twice, writes>>
    /\ UNCHANGED <<hostPc, projectFiles, globalFiles, allFiles, pf, sync>>

\* The host's call of glob.
HostGlob ==
    /\ hostPc = "idle"
    /\ owner = "free"
    /\ ~MustWait(files)
    /\ ops < MaxOps
    /\ ops' = ops + 1
    /\ \E g \in Patterns, x \in Excludes :
         LET r == GlobOut(files, g, x)
         IN  query' = [NoQuery EXCEPT !.op = "glob", !.globs = g, !.exclude = x,
                                      !.ok = r.ok, !.out = r.out]
    /\ UNCHANGED <<worker, disk, files, owner, popPc, walked, pc, call, early, twice, writes>>
    /\ UNCHANGED <<hostPc, projectFiles, globalFiles, allFiles, pf, sync>>

\* hash_files_matching_glob, had it taken the records out of the store.
HostHashGlobDraining ==
    /\ hostPc = "idle"
    /\ owner = "free"
    /\ ~MustWait(files)
    /\ ops < MaxOps
    /\ ops' = ops + 1
    /\ files' = <<>>
    /\ \E g \in Patterns, x \in Excludes :
         LET r == HashGlobOut(files, g, x)
         IN  query' = [NoQuery EXCEPT !.op = "hash", !.globs = g, !.exclude = x,
                                      !.ok = r.ok, !.out = r.out]
    /\ UNCHANGED <<worker, disk, owner, popPc, walked, pc, call, early, twice, writes>>
    /\ UNCHANGED <<hostPc, projectFiles, globalFiles, allFiles, pf, sync>>

\* The host's call of hash_files_matching_glob.
HostHashGlob ==
    /\ hostPc = "idle"
    /\ owner = "free"
    /\ ~MustWait(files)
    /\ ops < MaxOps
    /\ ops' = ops + 1
    /\ \E g \in Patterns, x \in Excludes :
         LET r == HashGlobOut(files, g, x)
         IN  query' = [NoQuery EXCEPT !.op = "hash", !.globs = g, !.exclude = x,
                                      !.ok = r.ok, !.out = r.out]
    /\ UNCHANGED <<worker, disk, files, owner, popPc, walked, pc, call, early, twice, writes>>
    /\ UNCHANGED <<hostPc, projectFiles, globalFiles, allFiles, pf, sync>>

\* A host that holds the partition of the populated snapshot and keeps it
\* in step with the index, with one mapping throughout.
InitSync ==
    /\ worker = "Some"
    /\ popPc = "done"
    /\ owner = "free"
    /\ disk \in [Paths -> Contents \cup {NoFile}]
    /\ walked \in Orderings(WalkRecords(disk))
    /\ files = ExtendAndSort(<<>>, walked)
    /\ pc = [c \in Callers |-> "idle"]
    /\ call = NoCall
    /\ early = {}
    /\ twice = NoRun
    /\ ops = 0
    /\ writes = 0
    /\ hostPc = "idle"
    /\ \E mapping \in Mappings :
         /\ sync = [NoSync EXCEPT !.mapping = mapping]
         /\ projectFiles = InitialPartition(files, mapping).projects
         /\ globalFiles = InitialPartition(files, mapping).global
    /\ allFiles = files
    /\ pf = NoPf
    /\ query = NoQuery

NextSync ==
    \/ SyncUpdate
    \/ SyncPartition
    \/ HostReturn
    \/ HostWait
    \/ HostReadWait
    \/ HostGetFiles
    \/ HostGlob
    \/ HostHashGlob

SpecSync == InitSync /\ [][NextSync]_vars

\* ------------------------------------- glob queries beside the writers
\* The threads that are inside update_files.
Updating == {c \in Callers : pc[c] \in {"upd_lock", "upd_hash", "upd_merge", "upd_ret"}}

\* A thread calls hash_files_matching_glob: its first step is all_file_data().
HashCall(c) ==
    /\ pc[c] = "idle"
    /\ pc' = [pc EXCEPT ![c] = IF worker = "None" THEN "get_ret" ELSE "get_lock"]
    /\ UNCHANGED <<worker, disk, files, owner, popPc, walked, call, early, twice, ops, writes>>
    /\ UNCHANGED hostVars

\* get_files copies the records and drops the guard; glob_files and the hash
\* of the matched digests follow on the copy.  The patterns are drawn here:
\* nothing reads them before.  History: the calls of update_files issued so
\* far, and whether one is under way.
HashReturn(c) ==
    /\ pc[c] = "get_ret"
    /\ worker = "Some" => owner = c
    /\ owner' = "free"
    /\ pc' = [pc EXCEPT ![c] = "idle"]
    /\ \E g \in Patterns, x \in Excludes :
         LET r == HashGlobOut(GetFilesResult(c), g, x)
         IN  query' = [op |-> "hash", globs |-> g, exclude |-> x, ok |-> r.ok, out |-> r.out,
                       at |-> ops, quiet |-> Updating = {}]
    /\ UNCHANGED <<worker, disk, files, popPc, walked, call, early, twice, ops, writes>>
    /\ UNCHANGED <<hostPc, projectFiles, globalFiles, allFiles, pf, sync>>

NextGlob ==
    \/ PopLock
    \/ PopWalk
    \/ PopExtend
    \/ PopNotify
    \/ DiskWrite
    \/ \E c \in Callers : UpdCall(c)
    \/ \E c \in Callers : UpdLock(c)
    \/ \E c \in Callers : UpdHash(c)
    \/ \E c \in Callers : UpdMerge(c)
    \/ \E c \in Callers : UpdReturn(c)
    \/ \E c \in Callers : HashCall(c)
    \/ \E c \in Callers : GetLock(c)
    \/ \E c \in Callers : GetRelock(c)
    \/ \E c \in Callers : HashReturn(c)

SpecGlob == Init /\ [][NextGlob]_vars

\* The scheduling of the threads: a thread that can take a step takes it, and
\* a thread that wants the mutex gets it if the mutex is free again and again
\* (parking_lot's mutex is eventually fair).  Nothing makes a host call.
Fairness ==
    /\ SF_vars(PopLock)
    /\ WF_vars(PopWalk)
    /\ WF_vars(PopExtend)
    /\ WF_vars(PopNotify)
    /\ \A c \in Callers :
         /\ SF_vars(GetLock(c))
         /\ SF_vars(GetRelock(c))
         /\ WF_vars(GetReturn(c))
         /\ SF_vars(UpdLock(c))
         /\ WF_vars(UpdHash(c))
         /\ WF_vars(UpdMerge(c))
         /\ WF_vars(UpdReturn(c))

FairSpec == Spec /\ Fairness

\* The part of that scheduling the population pass relies on: it gets the
\* mutex if the mutex is free again and again, it takes its own steps, and
\* the call that holds the mutex goes on to release it.
PopFairness ==
    /\ SF_vars(PopLock)
    /\ WF_vars(PopWalk \/ PopExtend \/ PopNotify)
    /\ WF_vars(\E c \in Callers : GetReturn(c) \/ UpdHash(c) \/ UpdMerge(c) \/ UpdReturn(c))

\* The threads alone: what is on the disk has no part in who gets the mutex.
NextThreads ==
    \/ PopLock
    \/ PopWalk
    \/ PopExtend
    \/ PopNotify
    \/ \E c \in Callers : GetCall(c)
    \/ \E c \in Callers : GetLock(c)
    \/ \E c \in Callers : GetRelock(c)
    \/ \E c \in Callers : GetReturn(c)
    \/ \E c \in Callers : UpdCall(c)
    \/ \E c \in Callers : UpdLock(c)
    \/ \E c \in Callers : UpdHash(c)
    \/ \E c \in Callers : UpdMerge(c)
    \/ \E c \in Callers : UpdReturn(c)

FairPopSpec == Init /\ [][NextThreads]_vars /\ PopFairness

\* ------------------------------------------------------------- claims
\* The readable updated paths of the update_files call in progress.
ReadOk == {p \in call.updated : call.seen[p] # NoFile}

\* The store before and after it, as update_files reads a store: path -> digest.
Before == CollectMap(call.pre)
After == CollectMap(files)

\* C1: every get_files call issued before the population pass signalled
\* returns in the end, under fair scheduling.
C1_EarlyReadersReturn == \A c \in Callers : (c \in early) ~> (c \notin early)

\* C2: once the population pass has signalled, no get_files call issued
\* later waits on the condition variable.
C2_NoWaitAfterSignal ==
    popPc = "done" => \A c \in Callers \ early : pc[c] # "get_wait"

\* C3: a snapshot get_files returns holds at most one record per path.
C3_OneRecordPerPath ==
    \A c \in Callers : pc[c] = "get_ret" => NoDuplicatePath(GetFilesResult(c))

\* C4: with a root that exists, get_files does not return before the
\* population pass has appended the traversed files, sorted and signalled.
C4_NoPartialView ==
    \A c \in Callers : (pc[c] = "get_ret" /\ worker = "Some") => popPc = "done"

\* An update_files call on a store is about to return.
Returning(c) == pc[c] = "upd_ret" /\ worker = "Some"

\* C5: after update_files the store maps exactly the paths it mapped before
\* less the deleted ones, plus the updated paths that were read; a path that
\* was read has the digest of the content read, any other path the digest it
\* had; and the store holds one record per path.
C5_UpdateMergesDelta ==
    \A c \in Callers : Returning(c) =>
        /\ DOMAIN After = ((DOMAIN Before) \ call.deleted) \cup ReadOk
        /\ \A p \in ReadOk : After[p] = Hash(call.seen[p])
        /\ \A p \in (DOMAIN After) \ ReadOk : After[p] = Before[p]
        /\ NoDuplicatePath(files)

\* C5's case: on a populated store, a path is deleted and another, read with
\* a new content, has its digest overwritten.
C5_Witness ==
    \E c \in Callers :
        /\ Returning(c)
        /\ popPc = "done"
        /\ \E p \in ReadOk \cap DOMAIN Before : Before[p] # After[p]
        /\ \E q \in (call.deleted \cap DOMAIN Before) \ ReadOk : q \notin DOMAIN After

\* C6 as stated: the mapping update_files returns has one entry, the new
\* digest, for each updated path that was read, and holds no deleted path
\* and no path whose read failed.
C6_ReturnExcludesDeleted ==
    \A c \in Callers : Returning(c) =>
        /\ DOMAIN UpdateFilesResult(c) = ReadOk
        /\ \A p \in ReadOk : UpdateFilesResult(c)[p] = Hash(call.seen[p])
        /\ DOMAIN UpdateFilesResult(c) \cap call.deleted = {}

\* C6 as amended: the mapping has one entry, the new digest, for each updated
\* path that was read and no other; a deleted path is in it exactly when it is
\* also an updated path that was read.
C6_ReturnIsReadUpdates ==
    \A c \in Callers : Returning(c) =>
        /\ DOMAIN UpdateFilesResult(c) = ReadOk
        /\ \A p \in ReadOk : UpdateFilesResult(c)[p] = Hash(call.seen[p])
        /\ \A p \in call.updated \ ReadOk : p \notin DOMAIN UpdateFilesResult(c)
        /\ \A p \in call.deleted :
             p \in DOMAIN UpdateFilesResult(c) <=> p \in ReadOk

\* C6's case: a call whose updated paths are one read, also named as
\* deleted, and one whose read fails.
C6_Witness ==
    \E c \in Callers :
        /\ Returning(c)
        /\ ReadOk \cap call.deleted # {}
        /\ call.updated \ ReadOk # {}

\* C7: an updated path whose read fails and that is not deleted has after
\* the call the entry it had before (or none, if it had none); the other
\* updated paths that were read are merged and the deleted paths removed.
C7_FailedReadKeepsEntry ==
    \A c \in Callers : Returning(c) =>
        \A p \in (call.updated \ ReadOk) \ call.deleted :
            /\ p \in DOMAIN After <=> p \in DOMAIN Before
            /\ p \in DOMAIN After => After[p] = Before[p]
            /\ \A q \in ReadOk : q \in DOMAIN After /\ After[q] = Hash(call.seen[q])
            /\ \A q \in call.deleted \ ReadOk : q \notin DOMAIN After

\* C7's case: a failed read of a path the store holds, in a batch with a
\* path that is read and gets a digest the store did not have for it.
C7_Witness ==
    \E c \in Callers :
        /\ Returning(c)
        /\ \E p \in ((call.updated \ ReadOk) \ call.deleted) \cap DOMAIN Before :
             \E q \in ReadOk : q \notin DOMAIN Before \/ Before[q] # After[q]

\* C8: without a root no population thread exists, the store stays empty and
\* is never locked, no call blocks, get_files returns the empty sequence and
\* update_files the empty mapping.
C8_MissingRootStaysEmpty ==
    worker = "None" =>
        /\ popPc = "none"
        /\ files = <<>>
        /\ owner = "free"
        /\ call = NoCall
        /\ \A c \in Callers :
             /\ pc[c] \in {"idle", "get_ret", "upd_ret"}
             /\ pc[c] = "get_ret" => GetFilesResult(c) = <<>>
             /\ pc[c] = "upd_ret" => UpdateFilesResult(c) = EmptyMap

\* C8's case: without a root, with a readable file on the disk, one caller
\* is returning from update_files and the other from get_files.
C8_Witness ==
    /\ worker = "None"
    /\ \E p \in Paths : disk[p] # NoFile
    /\ \E c, d \in Callers : pc[c] = "upd_ret" /\ pc[d] = "get_ret"

\* C9: update_files calls with no updated path and the same deleted paths,
\* none of them in the store, leave the store as it was before the first of
\* them, record for record, and return the empty mapping.
C9_IdempotentDeletion ==
    \A c \in Callers : (Returning(c) /\ twice.n > 0) =>
        /\ files = twice.store
        /\ UpdateFilesResult(c) = EmptyMap

\* C10: in update_project_files an updated path (not also deleted) whose
\* nearest project root belongs to project P ends up, with its digest, in
\* P's list of the result, and is not put into the global files; an updated
\* path with no project root ends up in the global files.
C10_UpdatedGoToOwningProject ==
    hostPc = "pf_built" =>
        \A p \in (DOMAIN pf.updated) \ pf.deleted :
            LET project == FindProjectForPath(p, pf.mapping)
            IN  IF project # NoProject
                THEN /\ project \in DOMAIN pf.projects
                     /\ <<p, pf.updated[p]>> \in Range(pf.projects[project])
                     /\ p \in PathsOf(pf.global) => p \in PathsOf(globalFiles)
                ELSE <<p, pf.updated[p]>> \in Range(pf.global)

\* The update_project_files call has built its result and is about to return.
Built == hostPc = "pf_built"

\* The places (project, index) of a path in the lists of a partition.
PlacesOf(projects, p) ==
    {<<k, i>> \in UNION {{k} \X DOMAIN projects[k] : k \in DOMAIN projects} :
        projects[k][i][1] = p}

\* C11: in every result of a sequence of update_project_files calls, each
\* fed the result before it, from a partition of empty lists and with any
\* project_root_mappings in each call, no path is both in a project's list
\* and in the global files, and no path is twice in the project lists.
C11_OneBucketPerPath ==
    Built =>
        \A p \in Paths :
            /\ Cardinality(PlacesOf(pf.projects, p)) <= 1
            /\ PlacesOf(pf.projects, p) # {} => p \notin PathsOf(pf.global)

\* The paths the update_project_files call in progress was handed.
Touched == (DOMAIN pf.updated) \cup pf.deleted

\* The records of a list whose paths the call was not handed, in their order.
Untouched(list) == SelectSeq(list, LAMBDA r : r[1] \notin Touched)

\* C17: in the result of update_project_files every deleted path, also one
\* that is an updated path too, is absent from the list of its owning
\* project and from the global files; a call that only deletes paths held in
\* no bucket returns the partition it was handed; and every record whose
\* path is neither updated nor deleted is returned as it was, in the bucket
\* and at the place among such records it had (the global files are a set:
\* the code returns them in the order of a HashMap).
C17_DeletedGoneOthersKept ==
    Built =>
        /\ \A p \in pf.deleted :
             /\ p \notin PathsOf(pf.global)
             /\ LET project == FindProjectForPath(p, pf.mapping)
                IN  project \in DOMAIN pf.projects => p \notin PathsOf(pf.projects[project])
        /\ ( /\ DOMAIN pf.updated = {}
             /\ \A p \in pf.deleted :
                  PlacesOf(projectFiles, p) = {} /\ p \notin PathsOf(globalFiles) )
           => (pf.projects = projectFiles /\ Range(pf.global) = Range(globalFiles))
        /\ DOMAIN pf.projects = DOMAIN projectFiles
        /\ \A k \in DOMAIN projectFiles :
             Untouched(pf.projects[k]) = Untouched(projectFiles[k])
        /\ Range(Untouched(pf.global)) = Range(Untouched(globalFiles))

\* C17's case: a path held in its project's list is deleted and updated in
\* the same call, while a record the call does not name sits in a bucket.
C17_Witness ==
    /\ Built
    /\ \E p \in pf.deleted \cap DOMAIN pf.updated :
         LET project == FindProjectForPath(p, pf.mapping)
         IN  project \in DOMAIN projectFiles /\ p \in PathsOf(projectFiles[project])
    /\ \E q \in Paths \ Touched :
         PlacesOf(projectFiles, q) # {} \/ q \in PathsOf(globalFiles)

\* C17's other case: a call that deletes only a path held in no bucket, on
\* a partition that holds a record.
C17_WitnessAbsent ==
    /\ Built
    /\ DOMAIN pf.updated = {}
    /\ pf.deleted # {}
    /\ \A p \in pf.deleted : PlacesOf(projectFiles, p) = {} /\ p \notin PathsOf(globalFiles)
    /\ \E q \in Paths : PlacesOf(projectFiles, q) # {}

\* C20: update_project_files creates no project bucket and removes none:
\* the projects of the returned project_file_map are the projects of the
\* project_files it was handed.
C20_ProjectKeysKept ==
    Built => DOMAIN pf.projects = DOMAIN projectFiles

\* C20's case: the call is handed an updated path whose owning project has
\* no bucket, and deletes the last record of a bucket.
C20_Witness ==
    /\ Built
    /\ \E p \in DOMAIN pf.updated :
         FindProjectForPath(p, pf.mapping) \notin (DOMAIN projectFiles) \cup {NoProject}
    /\ \E k \in DOMAIN projectFiles : projectFiles[k] # <<>> /\ pf.projects[k] = <<>>

\* The records of a sequence are in ascending order of their paths.
SortedByPath(s) == \A i \in 1..(Len(s) - 1) : s[i][1] <= s[i + 1][1]

\* C14: every snapshot get_files returns is sorted by path in ascending
\* order, whatever the population pass and the update_files calls did
\* before it.
C14_SnapshotSorted ==
    \A c \in Callers : pc[c] = "get_ret" => SortedByPath(GetFilesResult(c))

\* C14's case: get_files returns records of two paths that the traversal
\* found in descending order.
C14_Witness ==
    \E c \in Callers :
        /\ pc[c] = "get_ret"
        /\ popPc = "done"
        /\ Len(walked) = 2 /\ walked[1][1] > walked[2][1]
        /\ \E i, j \in DOMAIN GetFilesResult(c) : GetFilesResult(c)[i][1] # GetFilesResult(c)[j][1]

\* The threads that are at work on the store: the population pass from its
\* lock to its signal, an update_files call from the drain to its return,
\* a get_files call that copies the records.
InStore ==
    {c \in Callers : worker = "Some" /\ pc[c] \in {"upd_hash", "upd_merge", "upd_ret", "get_ret"}}
      \cup (IF popPc \in {"walk", "extend", "notify"} THEN {"pop"} ELSE {})

\* C15: the population pass and the update_files calls exclude one another
\* on the store, and a get_files call copies the store as it was before or
\* after each update_files call: no update_files call is between its drain
\* and its return, nor the population pass between its lock and its signal,
\* while a snapshot is copied.
C15_WritersExcludeReaders ==
    /\ Cardinality(InStore) <= 1
    /\ \A t \in InStore : owner = t
    /\ \A c \in Callers : (pc[c] = "get_ret" /\ worker = "Some") => call = NoCall

\* C15's case: a get_files call copies a store that holds records while an
\* update_files call waits for the mutex.
C15_Witness ==
    /\ worker = "Some"
    /\ files # <<>>
    /\ \E c, d \in Callers : pc[c] = "get_ret" /\ pc[d] = "upd_lock"

\* C16 as stated: update_files does not hold the lock while it reads and
\* hashes the updated files.
C16_HashesUnlocked ==
    \A c \in Callers : pc[c] = "upd_hash" => owner # c

\* C16 as amended: update_files holds the lock from the drain of the store
\* to its return, the reads and the hashing included, and no get_files call
\* copies the store meanwhile.
C16_LockHeldThroughUpdate ==
    \A c \in Callers :
        (pc[c] \in {"upd_hash", "upd_merge"} \/ Returning(c)) =>
            /\ owner = c
            /\ \A d \in Callers \ {c} : pc[d] # "get_ret"

\* C16's case: an update_files call has drained a store that held records
\* and is about to read its updated paths, while a get_files call waits for
\* the mutex.
C16_Witness ==
    \E c \in Callers :
        /\ pc[c] = "upd_hash"
        /\ call.pre # <<>>
        /\ call.updated # {}
        /\ \E d \in Callers : pc[d] = "get_lock"

\* The steps of the population pass, in the order of its code.
PopOrder ==
    {<<"spawned", "walk">>, <<"walk", "extend">>, <<"extend", "notify">>, <<"notify", "done">>}

\* C18: with a root that exists the population pass runs to its end under
\* fair scheduling, whatever get_files and update_files calls interleave
\* with it, and it runs once: it takes the lock, traverses, appends and
\* sorts, and signals, each one time and in this order, and nothing starts
\* it again.
C18_PopulationRunsOnce ==
    /\ (worker = "Some") ~> (popPc = "done")
    /\ [][popPc' # popPc => <<popPc, popPc'>> \in PopOrder]_vars
    /\ [][(popPc = "extend" /\ popPc' = "notify") => files' = ExtendAndSort(files, walked)]_vars

\* C18's case: the population pass has signalled although a get_files call
\* and an update_files call were issued before it had the lock, and the
\* store it appended to was not empty.
C18_Witness ==
    /\ popPc = "done"
    /\ walked # <<>>
    /\ Len(files) > Len(walked)

\* The paths of the partition the host holds.
PartitionPaths ==
    PathsOf(globalFiles) \cup UNION {PathsOf(projectFiles[k]) : k \in DOMAIN projectFiles}

\* C12: a host that passes what incremental_update returned, with the same
\* deleted paths, on to update_project_files holds after every such round a
\* partition whose paths are the paths of the all_workspace_files snapshot
\* returned with it, whatever the updated and deleted paths were.
C12_PartitionCoversSnapshot ==
    hostPc = "idle" => PartitionPaths = PathsOf(allFiles)

\* C19: get_files, glob, hash_files_matching_glob and update_project_files
\* leave the store as it is, also when the pattern of a glob query is
\* malformed; a step that changes the store is a step of update_files.
C19_ReadsKeepStore ==
    [][files' # files => (hostPc = "idle" /\ hostPc' = "sync_updated")]_vars

\* C19's case: a glob query on a store that holds records has failed on a
\* malformed pattern, after a round of incremental_update and
\* update_project_files that deleted a path.
C19_Witness ==
    /\ query.op \in {"glob", "hash"}
    /\ ~query.ok
    /\ files # <<>>
    /\ hostPc = "idle"
    /\ sync.deleted # {}

\* A hash_files_matching_glob call returns, with the patterns of the call
\* before it, and no update_files call ran between the two.
SameQueryAgain(c) ==
    /\ pc[c] = "get_ret" /\ pc'[c] = "idle"
    /\ query.op = "hash" /\ query.ok
    /\ query'.globs = query.globs /\ query'.exclude = query.exclude
    /\ query.quiet /\ query.at = ops

\* An update_files call that reports one path and no other, held by the
\* store and matched by the patterns, read with a content whose digest is not
\* the one the store held for it.
OneMatchedFileModified(g, x) ==
    \E p \in Paths :
        /\ call.updated = {p} /\ call.deleted = {}
        /\ p \in ReadOk \cap DOMAIN Before
        /\ Hash(call.seen[p]) # Before[p]
        /\ p \in PathsOf(GlobFiles(call.pre, g, x).files)

\* C13: hash_files_matching_glob called twice with the same patterns and no
\* update_files call between returns the same digest; and the digest of the
\* store after an update_files call that reports one modified matched file
\* is not the digest of the store before it.
C13_DigestTracksContent ==
    /\ [][\A c \in Callers : SameQueryAgain(c) => query'.out = query.out]_vars
    /\ [](\A c \in Callers : Returning(c) =>
            \A g \in Patterns, x \in Excludes :
                OneMatchedFileModified(g, x) =>
                    HashGlobOut(files, g, x).out # HashGlobOut(call.pre, g, x).out)


=============================================================================
